---- MODULE Spec2Model ----
(***************************************************************************)
(* A model of the Go rules engine (GoGameState, src/CNN/datasets.py) and   *)
(* of the two streaming pipelines that replay recorded games through it    *)
(* (GoMoveDataset, src/CNN/datasets.py; SgfGoMoveDataset,                  *)
(* src/CNN/datasets_sgf.py).                                               *)
(*                                                                         *)
(* A coordinate is a pair <<x, y>>; the grid is indexed board[y][x] as the *)
(* numpy array of the source is.  Cell values: 0 empty, 1 black, -1 white. *)
(***************************************************************************)
EXTENDS Integers, Sequences, FiniteSets, TLC

(***************************************************************************)
(* Bounds of the model.                                                    *)
(***************************************************************************)
\* number of play_move calls made on one board
MaxCalls == 4
\* number of entries of one replayed game
MaxMoves == 4
\* largest worker_count of a data loader
MaxWorkers == 2
\* number of .data files and of lines in one .data file
MaxFiles == 2
MaxLines == 2
\* number of SGF files
MaxSgfFiles == 3
\* largest limit_games
MaxLimit == 2
\* largest game index _selected is evaluated on
MaxGameIndex == 1200

\* The board sizes explored.  The reachable positions of a 4x4 board are beyond
\* exhaustive search, so the sizes are fixed and the depth of play is bounded.
BoardSizes == {1, 2, 3}

VARIABLES
    size,       \* GoGameState.size
    board,      \* GoGameState.board
    calls,      \* number of play_move calls made so far
    last,       \* the last call: its arguments, the grid before it, its outcome
    replay,     \* one game being replayed: the position in the replay loop
    cfg,        \* DatasetConfig, mode and the worker count of one data loader
    workers,    \* per worker: the position of its __iter__ generator
    split,      \* one evaluation of _selected
    hist,       \* what the calls made on the board so far amount to
    gui         \* GoGameGUI: the canvas stone map, the turn, the counters

vars == <<size, board, calls, last, replay, cfg, workers, split, hist, gui>>

(***************************************************************************)
(* GoGameState                                                             *)
(***************************************************************************)
Idx(n) == 0 .. (n - 1)

Cells(n) == Idx(n) \X Idx(n)

\* np.zeros((size, size))
EmptyBoard(n) == [y \in Idx(n) |-> [x \in Idx(n) |-> 0]]

\* value = 1 if color == 'B' else -1
ColorValue(color) == IF color = "B" THEN 1 ELSE -1

\* self.board[y, x] = v for every (x, y) of cells
SetCells(b, cells, v) ==
    [y \in DOMAIN b |-> [x \in DOMAIN b[y] |->
        IF <<x, y>> \in cells THEN v ELSE b[y][x]]]

Range(s) == {s[i] : i \in DOMAIN s}

\* __init__: if size <= 0 or size > 25: raise ValueError
ValidSizeNoCeiling(n) == ~(n <= 0)
ValidSize(n) == ~(n <= 0 \/ n > 25)

\* the loop of apply_setup and of apply_empty over coords, 1-indexed pairs in
\* list order: self.board[y-1, x-1] = value for the pairs inside the board
RECURSIVE SetEachTransposed(_, _, _, _)
SetEachTransposed(b, n, coords, value) ==
    IF coords = << >> THEN b
    ELSE SetEachTransposed(
             IF 1 <= Head(coords)[1] /\ Head(coords)[1] <= n
                /\ 1 <= Head(coords)[2] /\ Head(coords)[2] <= n
             THEN SetCells(b, {<<Head(coords)[2] - 1, Head(coords)[1] - 1>>}, value)
             ELSE b,
             n, Tail(coords), value)
RECURSIVE SetEach(_, _, _, _)
SetEach(b, n, coords, value) ==
    IF coords = << >> THEN b
    ELSE SetEach(
             IF 1 <= Head(coords)[1] /\ Head(coords)[1] <= n
                /\ 1 <= Head(coords)[2] /\ Head(coords)[2] <= n
             THEN SetCells(b, {<<Head(coords)[1] - 1, Head(coords)[2] - 1>>}, value)
             ELSE b,
             n, Tail(coords), value)

\* apply_setup(color, coords)
ApplySetup(b, n, color, coords) == SetEach(b, n, coords, ColorValue(color))

\* apply_empty(coords)
ApplyEmpty(b, n, coords) == SetEach(b, n, coords, 0)

\* _neighbors: the in-board 4-neighbours in the order the generator yields them
Neighbors(n, x, y) ==
    (IF x > 0 THEN << <<x - 1, y>> >> ELSE << >>)
    \o (IF x + 1 < n THEN << <<x + 1, y>> >> ELSE << >>)
    \o (IF y > 0 THEN << <<x, y - 1>> >> ELSE << >>)
    \o (IF y + 1 < n THEN << <<x, y + 1>> >> ELSE << >>)

\* the inner for-loop with the visited test made against the group list
RECURSIVE ScanNeighborsRevisit(_, _, _, _)
ScanNeighborsRevisit(b, value, nbrs, st) ==
    IF nbrs = << >> THEN st
    ELSE LET p == Head(nbrs)
             v == b[p[2]][p[1]]
             st2 == IF v = 0
                    THEN [st EXCEPT !.liberties = @ \cup {p}]
                    ELSE IF v = value /\ p \notin Range(st.group)
                         THEN [st EXCEPT !.stack = Append(@, p)]
                         ELSE st
         IN ScanNeighborsRevisit(b, value, Tail(nbrs), st2)

\* the inner for-loop of _collect_group over the neighbours of the popped cell
RECURSIVE ScanNeighbors(_, _, _, _)
ScanNeighbors(b, value, nbrs, st) ==
    IF nbrs = << >> THEN st
    ELSE LET p == Head(nbrs)
             v == b[p[2]][p[1]]
             st2 == IF v = 0
                    THEN [st EXCEPT !.liberties = @ \cup {p}]
                    ELSE IF v = value /\ p \notin st.visited
                         THEN [st EXCEPT !.visited = @ \cup {p},
                                         !.stack = Append(@, p)]
                         ELSE st
         IN ScanNeighbors(b, value, Tail(nbrs), st2)

\* the while-loop of _collect_group: pop, append to group, scan neighbours
RECURSIVE CollectLoop(_, _, _, _)
CollectLoop(b, n, value, st) ==
    IF st.stack = << >> THEN st
    ELSE LET c == st.stack[Len(st.stack)]
             popped == [st EXCEPT !.stack = SubSeq(@, 1, Len(@) - 1),
                                  !.group = Append(@, c)]
         IN CollectLoop(b, n, value,
                ScanNeighbors(b, value, Neighbors(n, c[1], c[2]), popped))

\* return group, len(liberties)
GroupResult(st) == [group |-> st.group, liberties |-> Cardinality(st.liberties)]

\* _collect_group(x, y): the group as a list and the number of liberties
CollectGroup(b, n, x, y) ==
    GroupResult(CollectLoop(b, n, b[y][x],
                    [stack |-> << <<x, y>> >>, visited |-> {<<x, y>>},
                     group |-> << >>, liberties |-> {}]))

\* if self.board[y, x] != 0: raise ValueError("attempt to play on occupied point")
OccupiedNever(b, x, y) == FALSE
Occupied(b, x, y) == b[y][x] # 0

\* variants of the test that appends a group to captured_groups
AppendAlways(groups, g) == Append(groups, g.group)
AppendNever(groups, g) == groups

\* if liberties == 0: captured_groups.append(group)
AppendIfDead(groups, g) ==
    IF g.liberties = 0 THEN Append(groups, g.group) ELSE groups

\* the first loop of play_move over the neighbours of the target: one list
\* entry for every opposing neighbour whose group has no liberty
RECURSIVE CapturedGroupsFrom(_, _, _, _, _)
CapturedGroupsFrom(b, n, value, nbrs, groups) ==
    IF nbrs = << >> THEN groups
    ELSE CapturedGroupsFrom(b, n, value, Tail(nbrs),
            IF b[Head(nbrs)[2]][Head(nbrs)[1]] = -value
            THEN AppendIfDead(groups,
                     CollectGroup(b, n, Head(nbrs)[1], Head(nbrs)[2]))
            ELSE groups)

CapturedGroups(b, n, value, x, y) ==
    CapturedGroupsFrom(b, n, value, Neighbors(n, x, y), << >>)

\* captured_stones: the groups' coordinates appended group after group
RECURSIVE Flatten(_)
Flatten(groups) ==
    IF groups = << >> THEN << >> ELSE Head(groups) \o Flatten(Tail(groups))

\* the second loop of play_move: self.board[gy, gx] = 0 for every captured stone
RemoveCapturedNone(b, groups) == b
RemoveCaptured(b, groups) == SetCells(b, Range(Flatten(groups)), 0)

\* the suicide branch: captured stones back to -value, the placed stone removed
RevertSuicideKeepStone(b, groups, value, x, y) ==
    SetCells(b, Range(Flatten(groups)), -value)
RevertSuicide(b, groups, value, x, y) ==
    SetCells(SetCells(b, Range(Flatten(groups)), -value), {<<x, y>>}, 0)

\* the end of play_move, on the grid with the captured stones removed: the
\* liberties of the placed stone's group decide between the suicide error,
\* with the grid reverted, and the return of captured_stones
CheckSuicideNoRevert(removed, groups, n, value, x, y) ==
    IF CollectGroup(removed, n, x, y).liberties = 0
    THEN [result |-> "suicide", board |-> removed, captured |-> << >>]
    ELSE [result |-> "ok", board |-> removed, captured |-> Flatten(groups)]
CheckSuicideBeforeCaptures(removed, groups, n, value, x, y) ==
    IF CollectGroup(SetCells(removed, Range(Flatten(groups)), -value),
                    n, x, y).liberties = 0
    THEN [result |-> "suicide",
          board |-> RevertSuicide(removed, groups, value, x, y),
          captured |-> << >>]
    ELSE [result |-> "ok", board |-> removed, captured |-> Flatten(groups)]
CheckSuicide(removed, groups, n, value, x, y) ==
    IF CollectGroup(removed, n, x, y).liberties = 0
    THEN [result |-> "suicide",
          board |-> RevertSuicide(removed, groups, value, x, y),
          captured |-> << >>]
    ELSE [result |-> "ok", board |-> removed, captured |-> Flatten(groups)]

\* play_move from the second loop on: the captured groups are taken off
ResolveCaptures(placed, groups, n, value, x, y) ==
    CheckSuicide(RemoveCaptured(placed, groups), groups, n, value, x, y)

\* play_move once the stone is on the grid
AfterPlacement(placed, n, value, x, y) ==
    ResolveCaptures(placed, CapturedGroups(placed, n, value, x, y), n, value, x, y)

\* play_move(color, (x, y)) on grid b of size n: the outcome, the grid after
\* the call and the returned list ("captured" is meaningful for result "ok")
PlayMove(b, n, color, x, y) ==
    IF Occupied(b, x, y)
    THEN [result |-> "occupied", board |-> b, captured |-> << >>]
    ELSE AfterPlacement(SetCells(b, {<<x, y>>}, ColorValue(color)), n,
                        ColorValue(color), x, y)

\* make_features(to_play): the planes black, white, to-play (1.0 as 1, 0.0 as 0)
MakeFeaturesOfOpponent(b, n, to_play) ==
    << [y \in Idx(n) |-> [x \in Idx(n) |-> IF b[y][x] = 1 THEN 1 ELSE 0]],
       [y \in Idx(n) |-> [x \in Idx(n) |-> IF b[y][x] = -1 THEN 1 ELSE 0]],
       [y \in Idx(n) |-> [x \in Idx(n) |-> IF to_play = "B" THEN 0 ELSE 1]] >>
MakeFeatures(b, n, to_play) ==
    << [y \in Idx(n) |-> [x \in Idx(n) |-> IF b[y][x] = 1 THEN 1 ELSE 0]],
       [y \in Idx(n) |-> [x \in Idx(n) |-> IF b[y][x] = -1 THEN 1 ELSE 0]],
       [y \in Idx(n) |-> [x \in Idx(n) |-> IF to_play = "B" THEN 1 ELSE 0]] >>

(***************************************************************************)
(* The replay loops.  An entry of a compact-format game is the decoded     *)
(* JSON element: whether it is a dict, its number of keys, its first key,  *)
(* whether the key's value is a list, the list's length and its first two  *)
(* elements.  A node of an SGF main sequence is what get_move() returns:   *)
(* the colour ("none" for None), whether the position is not None, and     *)
(* the position.  One pass of a loop body gives the samples it yields (at  *)
(* most one), the grid afterwards, and how the loop goes on: "next"        *)
(* (continue with the following entry), "break", or "raise" (an exception  *)
(* other than play_move's ValueError leaves the loop).                     *)
(***************************************************************************)
SkipEntry(b) == [samples |-> << >>, board |-> b, flow |-> "next"]

\* what the body does once it has yielded the sample: play_move, and break
\* when it raises ValueError
ApplyMoveSampleAfter(sample, r) ==
    [samples |-> << [sample EXCEPT
                        !.features = MakeFeatures(r.board, Cardinality(DOMAIN r.board), "B")] >>,
     board |-> r.board,
     flow |-> IF r.result = "ok" THEN "next" ELSE "break"]
ApplyMove(sample, r) ==
    [samples |-> << sample >>, board |-> r.board,
     flow |-> IF r.result = "ok" THEN "next" ELSE "break"]

\* the body of the for-loop of GoMoveDataset._game_to_samples
CompactEntryStepStopsOnRange(n, b, e) ==
    IF ~e.isdict \/ e.nkeys # 1 THEN SkipEntry(b)
    ELSE IF ~e.islist \/ e.ncoords # 2 THEN SkipEntry(b)
    ELSE IF ~(1 <= e.x /\ e.x <= n /\ 1 <= e.y /\ e.y <= n)
         THEN [samples |-> << >>, board |-> b, flow |-> "break"]
    ELSE ApplyMove([features |-> MakeFeatures(b, n, e.color),
                    action |-> (e.y - 1) * n + (e.x - 1)],
                   PlayMove(b, n, e.color, e.x - 1, e.y - 1))
CompactEntryStepTransposed(n, b, e) ==
    IF ~e.isdict \/ e.nkeys # 1 THEN SkipEntry(b)
    ELSE IF ~e.islist \/ e.ncoords # 2 THEN SkipEntry(b)
    ELSE IF ~(1 <= e.x /\ e.x <= n /\ 1 <= e.y /\ e.y <= n) THEN SkipEntry(b)
    ELSE ApplyMove([features |-> MakeFeatures(b, n, e.color),
                    action |-> (e.x - 1) * n + (e.y - 1)],
                   PlayMove(b, n, e.color, e.x - 1, e.y - 1))
CompactEntryStep(n, b, e) ==
    IF ~e.isdict \/ e.nkeys # 1 THEN SkipEntry(b)
    ELSE IF ~e.islist \/ e.ncoords # 2 THEN SkipEntry(b)
    ELSE IF ~(1 <= e.x /\ e.x <= n /\ 1 <= e.y /\ e.y <= n) THEN SkipEntry(b)
    ELSE ApplyMove([features |-> MakeFeatures(b, n, e.color),
                    action |-> (e.y - 1) * n + (e.x - 1)],
                   PlayMove(b, n, e.color, e.x - 1, e.y - 1))

\* the body of the for-loop over main_sequence[1:] of SgfGoMoveDataset.__iter__
SgfNodeStep(n, b, node) ==
    IF node.color = "none" THEN SkipEntry(b)
    ELSE IF ~node.haspos
         THEN [samples |-> << >>, board |-> b, flow |-> "raise"]
    ELSE IF ~(0 <= node.x /\ node.x < n /\ 0 <= node.y /\ node.y < n)
         THEN SkipEntry(b)
    ELSE ApplyMove([features |-> MakeFeatures(b, n, node.color),
                    action |-> node.y * n + node.x],
                   PlayMove(b, n, node.color, node.x, node.y))

\* the loop after one more pass of its body: the samples yielded so far, the
\* grid, and how the loop goes on
Extend(run, r) ==
    [samples |-> run.samples \o r.samples, board |-> r.board, flow |-> r.flow]

\* the for-loop of _game_to_samples on a list of entries, from the state "run"
RECURSIVE CompactReplayFrom(_, _, _)
CompactReplayFrom(n, run, moves) ==
    IF moves = << >> \/ run.flow # "next" THEN run
    ELSE CompactReplayFrom(n,
             Extend(run, CompactEntryStep(n, run.board, Head(moves))),
             Tail(moves))

\* the for-loop over the nodes after the root of an SGF main sequence
RECURSIVE SgfReplayFrom(_, _, _)
SgfReplayFrom(n, run, nodes) ==
    IF nodes = << >> \/ run.flow # "next" THEN run
    ELSE SgfReplayFrom(n,
             Extend(run, SgfNodeStep(n, run.board, Head(nodes))),
             Tail(nodes))

\* the loops on a fresh GoGameState(n); flow "next" at the end: the list
\* was exhausted
CompactReplay(n, moves) == CompactReplayFrom(n, SkipEntry(EmptyBoard(n)), moves)

SgfReplay(n, nodes) == SgfReplayFrom(n, SkipEntry(EmptyBoard(n)), nodes)

\* the entries a compact-format game may hold: {"B"|"W": [x, y]} with 1-indexed
\* coordinates, coordinates outside the board, and malformed entries
CompactMove(color, x, y) ==
    [isdict |-> TRUE, nkeys |-> 1, color |-> color,
     islist |-> TRUE, ncoords |-> 2, x |-> x, y |-> y]

CompactEntries(n) ==
    {CompactMove(c, x, y) : c \in {"B", "W"}, x \in 1 .. n, y \in 1 .. n}
    \cup {CompactMove("B", 0, 1), CompactMove("W", 1, n + 1)}
    \cup {[CompactMove("B", 1, 1) EXCEPT !.isdict = FALSE],
          [CompactMove("B", 1, 1) EXCEPT !.nkeys = 2],
          [CompactMove("W", 1, 1) EXCEPT !.islist = FALSE],
          [CompactMove("W", 1, 1) EXCEPT !.ncoords = 3]}

\* the nodes of an SGF main sequence: moves of 'b' and 'w' with 0-indexed
\* positions, a node without a move, a pass, a position outside the board
SgfMove(color, x, y) == [color |-> color, haspos |-> TRUE, x |-> x, y |-> y]

SgfNodes(n) ==
    {SgfMove(c, x, y) : c \in {"b", "w"}, x \in Idx(n), y \in Idx(n)}
    \cup {[SgfMove("none", 0, 0) EXCEPT !.haspos = FALSE],
          [SgfMove("b", 0, 0) EXCEPT !.haspos = FALSE],
          SgfMove("w", n, 0)}

(***************************************************************************)
(* The split rule and the per-worker iteration of the two datasets.        *)
(* val_ratio is a rational num/den with den > 0.                           *)
(***************************************************************************)
\* int(v) for the rational v = num/den: truncation toward zero
IntOf(num, den) == IF num >= 0 THEN num \div den ELSE -((-num) \div den)

\* GoMoveDataset._selected
GoMoveDataset_selectedGap(mode, ratio, game_index) ==
    IF ratio.num <= 0 THEN mode = "train"
    ELSE LET bucket == game_index % 1000
             threshold == IntOf(ratio.num * 1000, ratio.den)
         IN IF mode = "val" THEN bucket < threshold ELSE bucket > threshold
GoMoveDataset_selected(mode, ratio, game_index) ==
    IF ratio.num <= 0 THEN mode = "train"
    ELSE LET bucket == game_index % 1000
             threshold == IntOf(ratio.num * 1000, ratio.den)
         IN IF mode = "val" THEN bucket < threshold ELSE bucket >= threshold

\* SgfGoMoveDataset._selected
SgfGoMoveDataset_selected(mode, ratio, game_index) ==
    IF ratio.num <= 0 THEN mode = "train"
    ELSE LET bucket == game_index % 1000
             threshold == IntOf(ratio.num * 1000, ratio.den)
         IN IF mode = "val" THEN bucket < threshold ELSE bucket >= threshold

\* if game_index % num_workers != worker_id: continue
OwnsShardAlways(index, num_workers, worker_id) == TRUE
OwnsShard(index, num_workers, worker_id) == index % num_workers = worker_id

\* limit_games is None (<< >>) or an integer (<< L >>):
\* self.cfg.limit_games is not None and games_seen >= self.cfg.limit_games
LimitReached(limit, games_seen) == limit # << >> /\ games_seen >= limit[1]

\* A line of a .data file: blank after strip(), not JSON, or JSON text of a
\* value of some type; "items" is what iterating the value gives (the elements
\* of an array, the keys of an object), "iterable" whether it can be iterated.
Line(kind, text, iterable, items) ==
    [kind |-> kind, text |-> text, iterable |-> iterable, items |-> items]

LegalCompactGame == << CompactMove("B", 1, 1), CompactMove("W", 2, 1) >>
IllegalCompactGame ==
    << CompactMove("B", 1, 1), CompactMove("W", 1, 1), CompactMove("B", 2, 2) >>
NotADict == [CompactMove("B", 1, 1) EXCEPT !.isdict = FALSE]

CompactLines ==
    { Line("legal", "json", TRUE, LegalCompactGame),
      Line("illegal", "json", TRUE, IllegalCompactGame),
      Line("blank", "blank", FALSE, << >>),
      Line("notjson", "notjson", FALSE, << >>),
      Line("number", "json", FALSE, << >>),
      Line("object", "json", TRUE, << NotADict >>) }

\* the lines 151-160 of GoMoveDataset.__iter__ on one line of an owned,
\* selected game: the labels of the samples yielded and how the iteration ends:
\* "continue" (on to the next line) or "raise" (an exception leaves __iter__)
CompactLineStep(n, line) ==
    IF line.text = "blank" THEN [samples |-> << >>, flow |-> "continue"]
    ELSE IF line.text = "notjson" THEN [samples |-> << >>, flow |-> "raise"]
    ELSE IF ~line.iterable THEN [samples |-> << >>, flow |-> "raise"]
    ELSE [samples |-> CompactReplay(n, line.items).samples, flow |-> "continue"]

\* An SGF file: whether it can be opened, whether Sgf_game.from_bytes accepts
\* it, its declared size and the nodes after the root of its main sequence.
SgfFile(kind, readable, parses, n, nodes) ==
    [kind |-> kind, readable |-> readable, parses |-> parses,
     size |-> n, nodes |-> nodes]

SgfFiles(n) ==
    { SgfFile("legal", TRUE, TRUE, n, << SgfMove("b", 0, 0), SgfMove("w", 1, 0) >>),
      SgfFile("illegal", TRUE, TRUE, n,
              << SgfMove("b", 0, 0), SgfMove("w", 0, 0), SgfMove("b", 1, 1) >>),
      SgfFile("wrongsize", TRUE, TRUE, n + 1, << SgfMove("b", 0, 0) >>),
      SgfFile("corrupt", TRUE, FALSE, n, << >>),
      SgfFile("unreadable", FALSE, FALSE, n, << >>),
      SgfFile("pass", TRUE, TRUE, n,
              << SgfMove("b", 0, 0), [SgfMove("w", 0, 0) EXCEPT !.haspos = FALSE] >>) }

\* after the replay loop: an exception skips "games_seen += 1"
SgfGameDone(run) == [samples |-> run.samples, counted |-> run.flow # "raise"]

\* the try-block without the comparison of game.get_size() with board_size
SgfFileStepAnySize(n, file) ==
    IF ~file.readable \/ ~file.parses THEN [samples |-> << >>, counted |-> FALSE]
    ELSE SgfGameDone(SgfReplay(n, file.nodes))

\* the try-block of SgfGoMoveDataset.__iter__ on one owned, selected file: the
\* samples yielded and whether "games_seen += 1" is reached
SgfFileStep(n, file) ==
    IF ~file.readable \/ ~file.parses THEN [samples |-> << >>, counted |-> FALSE]
    ELSE IF file.size # n THEN [samples |-> << >>, counted |-> FALSE]
    ELSE SgfGameDone(SgfReplay(n, file.nodes))

Labels(samples) == [i \in DOMAIN samples |-> samples[i].action]

\* what a worker did in its last loop iteration: the kind of the game's
\* content (when it was read), where the iteration ended, the labels yielded,
\* whether the game passed the limit check and the change of games_seen
Did(kind, outcome, labels, passed, delta) ==
    [kind |-> kind, outcome |-> outcome, labels |-> labels,
     passed_limit |-> passed, seen_delta |-> delta]

\* the generator before its first iteration
InitWorker ==
    [status |-> "running", file |-> 0, line |-> 0, games_seen |-> 0,
     scanned |-> 0, started |-> 0, owned |-> {},
     did |-> Did("none", "none", << >>, FALSE, 0)]

\* the worker after the lines 151-160 of GoMoveDataset.__iter__ ended as r
CompactProcessed(ws, kind, r) ==
    [ws EXCEPT !.status = IF r.flow = "raise" THEN "raised" ELSE @,
               !.did = Did(kind, r.flow, Labels(r.samples), TRUE, 1)]

\* the worker after the try-block of SgfGoMoveDataset.__iter__ ended as r
SgfProcessed(ws, kind, r) ==
    [ws EXCEPT !.games_seen = @ + (IF r.counted THEN 1 ELSE 0),
               !.did = Did(kind, "continue", Labels(r.samples), TRUE,
                           IF r.counted THEN 1 ELSE 0)]

\* game_index of "for game_index, line in enumerate(fh)": the position of the
\* line in the file that is open
CompactGameIndex(ws) == ws.line

\* one iteration of "for game_index, line in enumerate(fh)" of
\* GoMoveDataset.__iter__ by worker w in state ws, on a line with this content
CompactIteration(c, w, ws, line) ==
    LET game_index == CompactGameIndex(ws)
        next == [ws EXCEPT !.line = @ + 1, !.scanned = @ + 1]
    IN IF ~OwnsShard(game_index, c.num_workers, w)
       THEN [next EXCEPT !.did = Did("none", "shard", << >>, FALSE, 0)]
       ELSE IF LimitReached(c.limit, ws.games_seen)
       THEN [ws EXCEPT !.status = "returned",
                       !.owned = @ \cup {<<ws.file, ws.line>>},
                       !.did = Did("none", "limit", << >>, FALSE, 0)]
       ELSE LET seen == [next EXCEPT !.games_seen = @ + 1,
                                     !.started = @ + 1,
                                     !.owned = @ \cup {<<ws.file, ws.line>>}]
            IN IF ~GoMoveDataset_selected(c.mode, c.ratio, game_index)
               THEN [seen EXCEPT !.did = Did("none", "split", << >>, TRUE, 1)]
               ELSE CompactProcessed(seen, line.kind,
                                     CompactLineStep(c.board_size, line))

\* one iteration of "for file_index, sgf_path in enumerate(self.cfg.data_files)"
\* of SgfGoMoveDataset.__iter__
SgfIteration(c, w, ws, file) ==
    LET file_index == ws.file
        next == [ws EXCEPT !.file = @ + 1, !.scanned = @ + 1]
    IN IF ~OwnsShard(file_index, c.num_workers, w)
       THEN [next EXCEPT !.did = Did("none", "shard", << >>, FALSE, 0)]
       ELSE IF LimitReached(c.limit, ws.games_seen)
       THEN [ws EXCEPT !.status = "returned",
                       !.owned = @ \cup {<<ws.file, 0>>},
                       !.did = Did("none", "limit", << >>, FALSE, 0)]
       ELSE LET mine == [next EXCEPT !.started = @ + 1,
                                     !.owned = @ \cup {<<ws.file, 0>>}]
            IN IF ~SgfGoMoveDataset_selected(c.mode, c.ratio, file_index)
               THEN [mine EXCEPT !.did = Did("none", "split", << >>, TRUE, 0)]
               ELSE SgfProcessed(mine, file.kind,
                                 SgfFileStep(c.board_size, file))

(***************************************************************************)
(* Specification Spec: one board, any sequence of play_move calls.         *)
(***************************************************************************)
Colors == {"B", "W"}

\* the values of the variables a specification does not use
NoReplay == [status |-> "none"]
NoConfig == [fmt |-> "none"]
NoWorkers == << >>
NoSplit == [dataset |-> "none"]
NoHist == [calls |-> "none"]
NoGui == [game_active |-> "none"]

\* before the first play_move: no call has succeeded, none has captured
NoPlay == [succeeded |-> 0, captures |-> 0]

\* the tally after a play_move that ended as r
Tally(h, r) ==
    IF r.result = "ok"
    THEN [succeeded |-> h.succeeded + 1, captures |-> h.captures + Len(r.captured)]
    ELSE h

NoCall == [op |-> "none", color |-> "B", x |-> 0, y |-> 0,
           pre |-> << >>, result |-> "none", captured |-> << >>]

\* GoGameState(size) for a supported size
Init ==
    /\ size \in BoardSizes
    /\ board = EmptyBoard(size)
    /\ calls = 0
    /\ last = NoCall
    /\ replay = NoReplay
    /\ cfg = NoConfig
    /\ workers = NoWorkers
    /\ split = NoSplit
    /\ hist = NoPlay
    /\ gui = NoGui

PlayMoveCall ==
    /\ calls < MaxCalls
    /\ \E color \in Colors, x \in Idx(size), y \in Idx(size) :
          LET r == PlayMove(board, size, color, x, y)
          IN /\ board' = r.board
             /\ last' = [op |-> "play_move", color |-> color, x |-> x, y |-> y,
                         pre |-> board, result |-> r.result,
                         captured |-> r.captured]
             /\ hist' = Tally(hist, r)
    /\ calls' = calls + 1
    /\ UNCHANGED <<size, replay, cfg, workers, split, gui>>

Next == PlayMoveCall

Spec == Init /\ [][Next]_vars

(***************************************************************************)
(* Specification SpecPosition: a board on which apply_setup has put a      *)
(* position of at most MaxStones stones, then one call of play_move or of  *)
(* _collect_group on it.                                                   *)
(***************************************************************************)
MaxStones == 5

\* the grids apply_setup can leave on a board of size n
Positions(n) ==
    {b \in [Idx(n) -> [Idx(n) -> {-1, 0, 1}]] :
        Cardinality({q \in Cells(n) : b[q[2]][q[1]] # 0}) <= MaxStones}

InitPosition ==
    /\ size \in BoardSizes
    /\ board \in Positions(size)
    /\ calls = 0
    /\ last = NoCall
    /\ replay = NoReplay
    /\ cfg = NoConfig
    /\ workers = NoWorkers
    /\ split = NoSplit
    /\ hist = NoPlay
    /\ gui = NoGui

\* play_move(color, (x, y)) on the position
PlayMoveOnPosition ==
    /\ calls = 0
    /\ \E color \in Colors, x \in Idx(size), y \in Idx(size) :
          LET r == PlayMove(board, size, color, x, y)
          IN /\ board' = r.board
             /\ last' = [op |-> "play_move", color |-> color, x |-> x, y |-> y,
                         pre |-> board, result |-> r.result,
                         captured |-> r.captured]
             /\ hist' = Tally(hist, r)
    /\ calls' = calls + 1
    /\ UNCHANGED <<size, replay, cfg, workers, split, gui>>

\* _collect_group(x, y) on an occupied cell of the position, as play_move
\* calls it; the method reads self.board and assigns no cell
CollectGroupCall ==
    /\ calls = 0
    /\ \E x \in Idx(size), y \in Idx(size) :
          /\ board[y][x] # 0
          /\ last' = [op |-> "_collect_group", x |-> x, y |-> y, pre |-> board,
                      group |-> CollectGroup(board, size, x, y).group,
                      liberties |-> CollectGroup(board, size, x, y).liberties]
    /\ calls' = calls + 1
    /\ UNCHANGED <<size, board, replay, cfg, workers, split, hist, gui>>

NextPosition == PlayMoveOnPosition \/ CollectGroupCall

SpecPosition == InitPosition /\ [][NextPosition]_vars

(***************************************************************************)
(* Specification SpecKo: play_move calls from an empty 3x3 board on the    *)
(* five points of a corner, long enough for a stone to be captured and the *)
(* point to be retaken.                                                    *)
(***************************************************************************)
MaxKoCalls == 6

\* the corner, the two points beside it and the two points that close them
KoCells == {<<0, 0>>, <<1, 0>>, <<2, 0>>, <<0, 1>>, <<1, 1>>}

\* what the caller has seen: the previous call, whether a call has failed,
\* and whether one colour has played two successful calls in a row
NoKoHist == [prev |-> NoCall, failed |-> FALSE, twice |-> FALSE]

InitKo ==
    /\ size \in {3}
    /\ board = EmptyBoard(size)
    /\ calls = 0
    /\ last = NoCall
    /\ replay = NoReplay
    /\ cfg = NoConfig
    /\ workers = NoWorkers
    /\ split = NoSplit
    /\ hist = NoKoHist
    /\ gui = NoGui

\* the record of a call and the caller's notes after it
KoCall(color, p, r) ==
    [op |-> "play_move", color |-> color, x |-> p[1], y |-> p[2],
     pre |-> board, result |-> r.result, captured |-> r.captured]

KoNotes(color, r) ==
    [prev |-> last,
     failed |-> hist.failed \/ r.result # "ok",
     twice |-> hist.twice \/ (/\ r.result = "ok"
                               /\ last.result = "ok"
                               /\ last.color = color)]

\* a variant of the call that refuses to retake at once the point where the
\* previous call captured a single stone
KoPlayMoveCallWithKoRule ==
    /\ calls < MaxKoCalls
    /\ \E color \in Colors, p \in KoCells :
          LET r == IF /\ last.result = "ok"
                      /\ last.captured = << p >>
                      /\ last.color # color
                   THEN [result |-> "ko", board |-> board, captured |-> << >>]
                   ELSE PlayMove(board, size, color, p[1], p[2])
          IN /\ board' = r.board
             /\ last' = KoCall(color, p, r)
             /\ hist' = KoNotes(color, r)
    /\ calls' = calls + 1
    /\ UNCHANGED <<size, replay, cfg, workers, split, gui>>

\* play_move(color, p): the object holds size and board and nothing else, so
\* the call is given the grid, the colour and the point
KoPlayMoveCall ==
    /\ calls < MaxKoCalls
    /\ \E color \in Colors, p \in KoCells :
          LET r == PlayMove(board, size, color, p[1], p[2])
          IN /\ board' = r.board
             /\ last' = KoCall(color, p, r)
             /\ hist' = KoNotes(color, r)
    /\ calls' = calls + 1
    /\ UNCHANGED <<size, replay, cfg, workers, split, gui>>

NextKo == KoPlayMoveCall

SpecKo == InitKo /\ [][NextKo]_vars

(***************************************************************************)
(* Specification SpecGames: one worker replaying game after game.  "board" *)
(* is the grid of the object the local variable "state" refers to (<< >>   *)
(* before the first game), "last" the game just replayed, "hist" what the  *)
(* iterations before it were.                                              *)
(***************************************************************************)
MaxGameEntries == 2

\* the entries the games are made of: a stone, two stones that capture it, a
\* move on its point, and an entry the loop cannot use (not a dict; a pass)
GameCompactEntries ==
    {CompactMove("B", 1, 1), CompactMove("W", 2, 1), CompactMove("W", 1, 2),
     CompactMove("W", 1, 1), NotADict}

GameSgfNodes ==
    {SgfMove("b", 0, 0), SgfMove("w", 1, 0), SgfMove("w", 0, 1),
     SgfMove("w", 0, 0), [SgfMove("b", 0, 0) EXCEPT !.haspos = FALSE]}

\* the lists of at most k entries drawn from S
RECURSIVE EntryLists(_, _)
EntryLists(S, k) ==
    IF k = 0 THEN {<< >>}
    ELSE EntryLists(S, k - 1)
         \cup {Append(l, e) : l \in {l \in EntryLists(S, k - 1) : Len(l) = k - 1},
                              e \in S}

\* state = GoGameState(self.board_size): a new object, whatever "state"
\* referred to before; the variant keeps the object of the previous game
NewGameStateReused(prev, n) == IF prev = << >> THEN EmptyBoard(n) ELSE prev
NewGameState(prev, n) == EmptyBoard(n)

NoGame == [op |-> "none", fmt |-> "none", moves |-> << >>, samples |-> << >>,
           flow |-> "none"]

NoEarlierGame == [abandoned |-> FALSE, skipped |-> FALSE]

\* the iterations before the one that starts: whether a game was abandoned
\* with stones on its board, whether an item was skipped
Earlier(b) ==
    [abandoned |-> hist.abandoned
                      \/ (last.flow \in {"break", "raise"} /\ b # EmptyBoard(size)),
     skipped |-> hist.skipped \/ last.flow = "skip"]

InitGames ==
    /\ size \in {2}
    /\ board = << >>
    /\ calls = 0
    /\ last = NoGame
    /\ replay = NoReplay
    /\ cfg \in {[fmt |-> "compact"], [fmt |-> "sgf"]}
    /\ workers = NoWorkers
    /\ split = NoSplit
    /\ hist = NoEarlierGame
    /\ gui = NoGui

GameReplayed(fmt, moves, run) ==
    /\ board' = run.board
    /\ last' = [op |-> "game", fmt |-> fmt, moves |-> moves,
                samples |-> run.samples, flow |-> run.flow]
    /\ hist' = Earlier(board)
    /\ UNCHANGED <<size, calls, replay, cfg, workers, split, gui>>

\* no GoGameState is made in this iteration: "state" keeps its object
GameSkipped(fmt) ==
    /\ last' = [op |-> "game", fmt |-> fmt, moves |-> << >>,
                samples |-> << >>, flow |-> "skip"]
    /\ hist' = Earlier(board)
    /\ UNCHANGED <<size, board, calls, replay, cfg, workers, split, gui>>

\* GoMoveDataset.__iter__, lines 154-160, on a line that is a list of entries
CompactGame ==
    /\ cfg.fmt = "compact"
    /\ \E moves \in EntryLists(GameCompactEntries, MaxGameEntries) :
          GameReplayed("compact", moves,
              CompactReplayFrom(size, SkipEntry(NewGameState(board, size)), moves))

\* a blank line: "continue" before the GoGameState is made
CompactBlankLine ==
    /\ cfg.fmt = "compact"
    /\ GameSkipped("compact")

\* SgfGoMoveDataset.__iter__, lines 66-95, on a file of the requested size
SgfGame ==
    /\ cfg.fmt = "sgf"
    /\ \E nodes \in EntryLists(GameSgfNodes, MaxGameEntries) :
          GameReplayed("sgf", nodes,
              SgfReplayFrom(size, SkipEntry(NewGameState(board, size)), nodes))

\* a file that cannot be read or parsed, or of another size: the iteration
\* ends before the GoGameState is made
SgfCorruptFile ==
    /\ cfg.fmt = "sgf"
    /\ GameSkipped("sgf")

NextGames == CompactGame \/ CompactBlankLine \/ SgfGame \/ SgfCorruptFile

SpecGames == InitGames /\ [][NextGames]_vars

(***************************************************************************)
(* The choice of the AI move (ai_move of src/CNN/play.py, _get_ai_move of  *)
(* src/CNN/go_gui.py).  The network's output enters as "order", the point  *)
(* indices sorted by descending probability (np.argsort(probs)[::-1]).     *)
(* None is << >>, a point is <<x, y>>.                                     *)
(***************************************************************************)
\* to_xy(index, size): y, x = divmod(index, size)
ToXY(index, n) == << index % n, index \div n >>

\* the simulation of a candidate: temp.board = state.board.copy(), then
\* temp.play_move(color, (x, y)); "live" is the grid of the live state after
\* it.  The variant simulates on the live grid itself.
Simulated(r, live) == [result |-> r.result, live |-> live]

AiTryOnLiveBoard(live, n, color, p) ==
    Simulated(PlayMove(live, n, color, p[1], p[2]),
              PlayMove(live, n, color, p[1], p[2]).board)
AiTry(live, n, color, p) ==
    Simulated(PlayMove(live, n, color, p[1], p[2]), live)

\* the for-loop of ai_move: occupied points and points on which the
\* simulation raises ValueError are passed over, the first other point ends
\* the loop
RECURSIVE AiMoveFrom(_, _, _, _)
AiMoveTried(t, p, n, color, rest) ==
    IF t.result # "ok" THEN AiMoveFrom(t.live, n, color, rest)
    ELSE [coord |-> p, live |-> t.live]

AiMoveFrom(live, n, color, order) ==
    IF order = << >> THEN [coord |-> << >>, live |-> live]
    ELSE IF live[ToXY(Head(order), n)[2]][ToXY(Head(order), n)[1]] # 0
         THEN AiMoveFrom(live, n, color, Tail(order))
    ELSE AiMoveTried(AiTry(live, n, color, ToXY(Head(order), n)),
                     ToXY(Head(order), n), n, color, Tail(order))

\* the for-loop of _get_ai_move: it runs over every index, and simulates a
\* point only while best_move is None
RECURSIVE GetAiMoveFrom(_, _, _, _, _)
GetAiMoveTried(t, p, n, color, rest) ==
    GetAiMoveFrom(t.live, n, color, rest, IF t.result = "ok" THEN p ELSE << >>)

GetAiMoveFrom(live, n, color, order, best_move) ==
    IF order = << >> THEN [coord |-> best_move, live |-> live]
    ELSE IF live[Head(order) \div n][Head(order) % n] # 0
         THEN GetAiMoveFrom(live, n, color, Tail(order), best_move)
    ELSE IF best_move # << >>
         THEN GetAiMoveFrom(live, n, color, Tail(order), best_move)
    ELSE GetAiMoveTried(AiTry(live, n, color, ToXY(Head(order), n)),
                        ToXY(Head(order), n), n, color, Tail(order))

(***************************************************************************)
(* Specification SpecAi: a game of one of the two programs from an empty   *)
(* board in which every turn is an AI turn, for either colour.             *)
(***************************************************************************)
MaxAiTurns == 5

AiBoardSizes == {1, 2, 3}

\* the orders a network may give: on the 1x1 board the one there is, on the
\* 2x2 board the orders that go round the board from each point in each
\* direction, and on the 3x3 board orders that begin at the corner, beside
\* it, at the centre and at the far corner
Orders(n) ==
    IF n = 1 THEN { << 0 >> }
    ELSE IF n = 2
    THEN { << 0, 1, 3, 2 >>, << 1, 3, 2, 0 >>, << 3, 2, 0, 1 >>, << 2, 0, 1, 3 >>,
           << 0, 2, 3, 1 >>, << 2, 3, 1, 0 >>, << 3, 1, 0, 2 >>, << 1, 0, 2, 3 >> }
    ELSE { << 0, 1, 2, 3, 4, 5, 6, 7, 8 >>,
           << 1, 3, 0, 4, 2, 6, 5, 7, 8 >>,
           << 4, 0, 3, 1, 8, 7, 6, 5, 2 >>,
           << 8, 7, 6, 5, 4, 3, 2, 1, 0 >> }

InitAi ==
    /\ size \in AiBoardSizes
    /\ board = EmptyBoard(size)
    /\ calls = 0
    /\ last = NoCall
    /\ replay = NoReplay
    /\ cfg \in {[prog |-> "play"], [prog |-> "gui"]}
    /\ workers = NoWorkers
    /\ split = NoSplit
    /\ hist = NoHist
    /\ gui = NoGui

\* the turn once the search returned "found" and the point, unless it is
\* None, was played on the live board
AiTurnPlayed(prog, color, order, found, played) ==
    /\ board' = played.board
    /\ last' = [op |-> "ai_move", prog |-> prog, color |-> color,
                order |-> order, coord |-> found.coord, pre |-> board,
                searched |-> found.live, result |-> played.result]
    /\ calls' = calls + 1
    /\ UNCHANGED <<size, replay, cfg, workers, split, hist, gui>>

\* coord is None: pass; otherwise state.play_move(current, coord)
Played(r) == [result |-> r.result, board |-> r.board]

PlayFound(found, n, color) ==
    IF found.coord = << >>
    THEN [result |-> "pass", board |-> found.live]
    ELSE Played(PlayMove(found.live, n, color, found.coord[1], found.coord[2]))

AiTurnDone(prog, color, order, found) ==
    AiTurnPlayed(prog, color, order, found, PlayFound(found, size, color))

\* the AI branch of the loop of main() in play.py, which ends at
\* move_count >= board_size * board_size * 2
PlayAiTurn ==
    /\ cfg.prog = "play"
    /\ calls < MaxAiTurns
    /\ calls < size * size * 2
    /\ \E color \in Colors, order \in Orders(size) :
          AiTurnDone("play", color, order, AiMoveFrom(board, size, color, order))

\* GoGameGUI._ai_move with _get_ai_move; _switch_player ends the game when
\* it finds move_count >= board_size * board_size
GuiAiTurn ==
    /\ cfg.prog = "gui"
    /\ calls < MaxAiTurns
    /\ calls <= size * size
    /\ \E color \in Colors, order \in Orders(size) :
          AiTurnDone("gui", color, order,
                     GetAiMoveFrom(board, size, color, order, << >>))

NextAi == PlayAiTurn \/ GuiAiTurn

SpecAi == InitAi /\ [][NextAi]_vars

(***************************************************************************)
(* Specification SpecGui: GoGameGUI (src/CNN/go_gui.py).  "board" is       *)
(* game_state.board, "gui" holds board_canvas.stones (the dict as the set  *)
(* of its items <<(x, y), colour>>), current_player, game_active,          *)
(* move_count and the number of _ai_move callbacks scheduled with          *)
(* root.after and not yet run; "cfg" holds human_color and ai_color.       *)
(* Tk runs one handler at a time, so every handler is one step.            *)
(***************************************************************************)
MaxPending == 2

GuiBoardSizes == {1, 2}

\* --human-color: choices=["B", "W", "black", "white"]
HumanColors == {"B", "W", "black", "white"}

\* human_color.upper()
Upper(s) ==
    CASE s = "black" -> "BLACK"
      [] s = "white" -> "WHITE"
      [] OTHER -> s

\* self.ai_color = 'W' if self.human_color == 'B' else 'B'
AiColor(human_color) == IF human_color = "B" THEN "W" ELSE "B"

\* 1 if self.current_player == 'B' else -1
StoneColor(player) == IF player = "B" THEN 1 ELSE -1

\* (x, y) in self.board_canvas.stones
HasStone(stones, p) == \E e \in stones : e[1] = p

\* add_stone: self.stones[(x, y)] = color, then every captured coordinate
\* that is a key is deleted; the variant deletes nothing
AddStoneKeepsCaptured(stones, p, color, captured) ==
    {e \in stones : e[1] # p} \cup {<<p, color>>}
AddStone(stones, p, color, captured) ==
    {e \in ({e \in stones : e[1] # p} \cup {<<p, color>>}) :
        e[1] \notin Range(captured)}

\* the fields __init__ and _restart_game set, with the callback they schedule
\* when the AI has the first move
NewGame(pending, ai_color) ==
    [stones |-> {}, current_player |-> "B", game_active |-> TRUE,
     move_count |-> 0,
     pending |-> pending + (IF ai_color = "B" THEN 1 ELSE 0)]

\* _switch_player followed by self.move_count += 1
Moved(g, n) ==
    [g EXCEPT !.current_player = IF @ = "B" THEN "W" ELSE "B",
              !.game_active = IF g.move_count >= n * n THEN FALSE ELSE @,
              !.move_count = @ + 1]

\* if self.game_active and self.current_player == self.ai_color:
\*     self.root.after(500, self._ai_move)
Respond(g, ai_color) ==
    IF g.game_active /\ g.current_player = ai_color
    THEN [g EXCEPT !.pending = @ + 1] ELSE g

NoEvent == [op |-> "none", x |-> 0, y |-> 0, result |-> "none", changed |-> FALSE]

InitGui ==
    /\ size \in GuiBoardSizes
    /\ board = EmptyBoard(size)
    /\ calls = 0
    /\ last = NoEvent
    /\ replay = NoReplay
    /\ cfg \in {[human_color |-> Upper(h), ai_color |-> AiColor(Upper(h))] :
                    h \in HumanColors}
    /\ workers = NoWorkers
    /\ split = NoSplit
    /\ hist = NoHist
    /\ gui = NewGame(0, cfg.ai_color)

\* a handler has run: the engine's grid and the GUI's fields after it, and
\* whether the grid, the stone map, the player to move or the move count
\* differ from what they were
GuiEvent(op, x, y, result, b, g) ==
    /\ board' = b
    /\ gui' = g
    /\ last' = [op |-> op, x |-> x, y |-> y, result |-> result,
                changed |-> \/ b # board
                            \/ g.stones # gui.stones
                            \/ g.current_player # gui.current_player
                            \/ g.move_count # gui.move_count]
    /\ UNCHANGED <<size, calls, replay, cfg, workers, split, hist>>

\* _on_board_click after play_move ended as r
ClickPlayed(x, y, r) ==
    IF r.result # "ok" THEN GuiEvent("click", x, y, r.result, r.board, gui)
    ELSE GuiEvent("click", x, y, "ok", r.board,
             Respond(Moved([gui EXCEPT !.stones =
                                AddStone(@, <<x, y>>,
                                         StoneColor(gui.current_player),
                                         r.captured)],
                           size),
                     cfg.ai_color))

OnBoardClick ==
    /\ gui.pending < MaxPending
    /\ \E x \in Idx(size), y \in Idx(size) :
          IF ~gui.game_active \/ gui.current_player # cfg.human_color
          THEN GuiEvent("click", x, y, "ignored", board, gui)
          ELSE IF HasStone(gui.stones, <<x, y>>)
          THEN GuiEvent("click", x, y, "occupied", board, gui)
          ELSE ClickPlayed(x, y, PlayMove(board, size, gui.current_player, x, y))

HumanPass ==
    /\ gui.pending < MaxPending
    /\ IF ~gui.game_active \/ gui.current_player # cfg.human_color
       THEN GuiEvent("pass", 0, 0, "ignored", board, gui)
       ELSE GuiEvent("pass", 0, 0, "ok", board,
                     Respond(Moved(gui, size), cfg.ai_color))

\* _ai_move after play_move of the returned point ended as r: any exception
\* ends the game
AiStonePlaced(g, p, r) ==
    IF r.result # "ok"
    THEN GuiEvent("ai", p[1], p[2], r.result, r.board,
                  [g EXCEPT !.game_active = FALSE])
    ELSE GuiEvent("ai", p[1], p[2], "ok", r.board,
                  Moved([g EXCEPT !.stones =
                             AddStone(@, p, StoneColor(g.current_player),
                                      r.captured)],
                        size))

\* _ai_move after _get_ai_move returned
AiMoveFound(g, found) ==
    IF found.coord = << >>
    THEN GuiEvent("ai", 0, 0, "pass", found.live, Moved(g, size))
    ELSE AiStonePlaced(g, found.coord,
             PlayMove(found.live, size, g.current_player,
                      found.coord[1], found.coord[2]))

\* a scheduled _ai_move callback runs
AiMoveCallback ==
    /\ gui.pending > 0
    /\ IF ~gui.game_active \/ gui.current_player # cfg.ai_color
       THEN GuiEvent("ai", 0, 0, "ignored", board,
                     [gui EXCEPT !.pending = @ - 1])
       ELSE \E order \in Orders(size) :
               AiMoveFound([gui EXCEPT !.pending = @ - 1],
                   GetAiMoveFrom(board, size, gui.current_player, order, << >>))

\* _restart_game; callbacks scheduled before it stay scheduled
RestartGame ==
    /\ gui.pending < MaxPending
    /\ GuiEvent("restart", 0, 0, "ok", EmptyBoard(size),
                NewGame(gui.pending, cfg.ai_color))

NextGui == OnBoardClick \/ HumanPass \/ AiMoveCallback \/ RestartGame

SpecGui == InitGui /\ [][NextGui]_vars

(***************************************************************************)
(* Specification SpecSetup: GoGameState(size) for a requested size, then   *)
(* any sequence of apply_setup, apply_empty and make_features calls.       *)
(* Before the constructor has run there is no grid (<< >>).  "hist" keeps, *)
(* for every 1-indexed coordinate of the board, what it was last set to:   *)
(* "B", "W", or "E" (emptied, or never set).                               *)
(***************************************************************************)
\* the sizes a board is requested with
RequestedSizes == {-2, -1, 0, 1, 2, 24, 25, 26, 27}

\* the sizes on which the setup operations are explored
SetupBoardSizes == {1, 2}

\* longest coords list of one apply_setup or apply_empty call
MaxCoords == 2

\* the 1-indexed pairs of a coords list: every cell of the board and pairs
\* outside it
SetupCoords(n) ==
    ((1 .. n) \X (1 .. n)) \cup {<<0, 1>>, <<1, n + 1>>, <<n + 1, n + 1>>}

RECURSIVE CoordLists(_, _)
CoordLists(n, k) ==
    IF k = 0 THEN {<< >>}
    ELSE CoordLists(n, k - 1)
         \cup {Append(cs, c) : cs \in CoordLists(n, k - 1), c \in SetupCoords(n)}

NothingSet(n) == [setting |-> [c \in (1 .. n) \X (1 .. n) |-> "E"]]

\* the settings after one more call: the pairs of the list in order, a pair
\* outside the board sets nothing
RECURSIVE Settle(_, _, _)
Settle(setting, coords, v) ==
    IF coords = << >> THEN setting
    ELSE Settle(IF Head(coords) \in DOMAIN setting
                THEN [setting EXCEPT ![Head(coords)] = v] ELSE setting,
                Tail(coords), v)

InitSetup ==
    /\ size \in RequestedSizes
    /\ board = << >>
    /\ calls = 0
    /\ last = NoCall
    /\ replay = NoReplay
    /\ cfg = NoConfig
    /\ workers = NoWorkers
    /\ split = NoSplit
    /\ hist = NoHist
    /\ gui = NoGui

\* GoGameState(size)
NewGoGameState ==
    /\ last.op = "none"
    /\ IF ValidSize(size)
       THEN /\ board' = EmptyBoard(size)
            /\ last' = [op |-> "__init__", result |-> "ok"]
            /\ hist' = NothingSet(size)
       ELSE /\ board' = board
            /\ last' = [op |-> "__init__", result |-> "invalid_size"]
            /\ hist' = hist
    /\ UNCHANGED <<size, calls, replay, cfg, workers, split, gui>>

Constructed == last.op # "none" /\ last.result = "ok"

ApplySetupCall ==
    /\ Constructed /\ size \in SetupBoardSizes
    /\ \E color \in Colors, coords \in CoordLists(size, MaxCoords) :
          /\ board' = ApplySetup(board, size, color, coords)
          /\ last' = [op |-> "apply_setup", result |-> "ok", color |-> color]
          /\ hist' = [setting |-> Settle(hist.setting, coords, color)]
    /\ UNCHANGED <<size, calls, replay, cfg, workers, split, gui>>

ApplyEmptyCall ==
    /\ Constructed /\ size \in SetupBoardSizes
    /\ \E coords \in CoordLists(size, MaxCoords) :
          /\ board' = ApplyEmpty(board, size, coords)
          /\ last' = [op |-> "apply_empty", result |-> "ok"]
          /\ hist' = [setting |-> Settle(hist.setting, coords, "E")]
    /\ UNCHANGED <<size, calls, replay, cfg, workers, split, gui>>

MakeFeaturesCall ==
    /\ Constructed
    /\ \E to_play \in Colors :
          last' = [op |-> "make_features", result |-> "ok", to_play |-> to_play,
                   pre |-> board,
                   features |-> MakeFeatures(board, size, to_play)]
    /\ UNCHANGED <<size, board, calls, replay, cfg, workers, split, hist, gui>>

NextSetup ==
    NewGoGameState \/ ApplySetupCall \/ ApplyEmptyCall \/ MakeFeaturesCall

SpecSetup == InitSetup /\ [][NextSetup]_vars

(***************************************************************************)
(* Specification SpecReplay: one game replayed on a fresh board, entry by  *)
(* entry, in either format.  The replay loop never looks ahead, so the     *)
(* entries are drawn as the loop reaches them.                             *)
(***************************************************************************)
\* an entry that is a well-formed placement on the board: the entries the
\* loops emit a sample for
IsPlacement(fmt, n, e) ==
    IF fmt = "compact"
    THEN e \in {CompactMove(c, x, y) : c \in {"B", "W"}, x \in 1 .. n, y \in 1 .. n}
    ELSE e \in {SgfMove(c, x, y) : c \in {"b", "w"}, x \in Idx(n), y \in Idx(n)}

\* The board sizes of the replayed games: the sizes explored in full and the
\* 9x9 board, on which the games are made of a few entries only.
ReplayBoardSizes == BoardSizes \cup {9}

ExampleCompactEntries ==
    {CompactMove("B", 4, 4), CompactMove("W", 4, 4), CompactMove("W", 9, 1),
     CompactMove("B", 10, 9), NotADict}

ExampleSgfNodes ==
    {SgfMove("b", 3, 3), SgfMove("w", 3, 3), SgfMove("w", 8, 0),
     SgfMove("b", 9, 8), [SgfMove("none", 0, 0) EXCEPT !.haspos = FALSE]}

\* the entries a replayed game of board size n is made of
DrawnCompactEntries(n) ==
    IF n \in BoardSizes THEN CompactEntries(n) ELSE ExampleCompactEntries

DrawnSgfNodes(n) == IF n \in BoardSizes THEN SgfNodes(n) ELSE ExampleSgfNodes

\* before the first entry nothing has been read
NoEntry(fmt) ==
    IF fmt = "compact" THEN NotADict
    ELSE [SgfMove("none", 0, 0) EXCEPT !.haspos = FALSE]

\* state = GoGameState(self.board_size), before the first entry.  "keep": the
\* consumer keeps every sample of the game ("kept") next to the placements
\* the game attempted ("tried").
FreshReplay(f, n, keep) ==
    [fmt |-> f, size |-> n, board |-> EmptyBoard(n),
     pos |-> 0, placements |-> 0, samples |-> 0, status |-> "running",
     entry |-> NoEntry(f), pre |-> EmptyBoard(n), out |-> << >>,
     keep |-> keep, tried |-> << >>, kept |-> << >>]

InitReplay ==
    /\ replay \in {FreshReplay(f, n, FALSE) :
                       f \in {"compact", "sgf"}, n \in ReplayBoardSizes}
    /\ size = 0
    /\ board = << >>
    /\ calls = 0
    /\ last = NoCall
    /\ cfg = NoConfig
    /\ workers = NoWorkers
    /\ split = NoSplit
    /\ hist = NoHist
    /\ gui = NoGui

\* the colour and the 0-indexed cell of a well-formed placement
Placement(fmt, e) ==
    IF fmt = "compact" THEN [color |-> e.color, x |-> e.x - 1, y |-> e.y - 1]
    ELSE [color |-> e.color, x |-> e.x, y |-> e.y]

ReplayAfter(e, r) ==
    [replay EXCEPT
        !.board = r.board,
        !.pre = replay.board,
        !.entry = e,
        !.out = r.samples,
        !.tried = IF replay.keep /\ IsPlacement(replay.fmt, replay.size, e)
                  THEN Append(@, Placement(replay.fmt, e)) ELSE @,
        !.kept = IF replay.keep THEN @ \o r.samples ELSE @,
        !.pos = @ + 1,
        !.placements = @ + (IF IsPlacement(replay.fmt, replay.size, e) THEN 1 ELSE 0),
        !.samples = @ + Len(r.samples),
        !.status = CASE r.flow = "next" -> "running"
                     [] r.flow = "break" -> "illegal"
                     [] OTHER -> "raised"]

ReplayCompactEntry ==
    /\ replay.status = "running" /\ replay.fmt = "compact"
    /\ replay.pos < MaxMoves
    /\ \E e \in DrawnCompactEntries(replay.size) :
          replay' = ReplayAfter(e, CompactEntryStep(replay.size, replay.board, e))
    /\ UNCHANGED <<size, board, calls, last, cfg, workers, split, hist, gui>>

ReplaySgfNode ==
    /\ replay.status = "running" /\ replay.fmt = "sgf"
    /\ replay.pos < MaxMoves
    /\ \E node \in DrawnSgfNodes(replay.size) :
          replay' = ReplayAfter(node, SgfNodeStep(replay.size, replay.board, node))
    /\ UNCHANGED <<size, board, calls, last, cfg, workers, split, hist, gui>>

\* the list of entries is exhausted
ReplayEndOfGame ==
    /\ replay.status = "running"
    /\ replay' = [replay EXCEPT !.status = "finished"]
    /\ UNCHANGED <<size, board, calls, last, cfg, workers, split, hist, gui>>

NextReplay == ReplayCompactEntry \/ ReplaySgfNode \/ ReplayEndOfGame

SpecReplay == InitReplay /\ [][NextReplay]_vars

(***************************************************************************)
(* Specification SpecGame: the replay of SpecReplay with a consumer that   *)
(* keeps every sample of the game.                                         *)
(***************************************************************************)
GameBoardSizes == {2}

InitGame ==
    /\ replay \in {FreshReplay(f, n, TRUE) :
                       f \in {"compact", "sgf"}, n \in GameBoardSizes}
    /\ size = 0
    /\ board = << >>
    /\ calls = 0
    /\ last = NoCall
    /\ cfg = NoConfig
    /\ workers = NoWorkers
    /\ split = NoSplit
    /\ hist = NoHist
    /\ gui = NoGui

SpecGame == InitGame /\ [][NextReplay]_vars

(***************************************************************************)
(* Specifications SpecStream and SpecShard: the __iter__ generators of the *)
(* workers of one data loader over one list of data files.  Workers share  *)
(* no state.  SpecStream follows one worker of the loader, with any        *)
(* limit_games; SpecShard follows all of them, interleaved, without        *)
(* limit_games.  The content of a game is drawn when a worker reads it.    *)
(***************************************************************************)
StreamBoardSizes == {2}

\* val_ratio: 0, 0.001 and 0.002 (the first game, the first two games of
\* every file are "val")
StreamRatios ==
    {[num |-> 0, den |-> 1], [num |-> 1, den |-> 1000], [num |-> 1, den |-> 500]}

\* the .data file lists: the number of lines of each file
RECURSIVE LineCounts(_)
LineCounts(k) ==
    IF k = 0 THEN {<< >>}
    ELSE {Append(fs, c) : fs \in LineCounts(k - 1), c \in 0 .. MaxLines}

CompactShapes == UNION {LineCounts(k) : k \in 1 .. MaxFiles}

\* the SGF file lists: one game per file
SgfShapes == {[i \in 1 .. k |-> 1] : k \in 0 .. MaxSgfFiles}

Limits == {<< >>} \cup {<< l >> : l \in 0 .. MaxLimit}

Configs(limits, ratios) ==
    {[fmt |-> "compact", board_size |-> n, files |-> fs, num_workers |-> nw,
      limit |-> lim, ratio |-> r, mode |-> m] :
        n \in StreamBoardSizes, fs \in CompactShapes, nw \in 1 .. MaxWorkers,
        lim \in limits, r \in ratios, m \in {"train", "val"}}
    \cup
    {[fmt |-> "sgf", board_size |-> n, files |-> fs, num_workers |-> nw,
      limit |-> lim, ratio |-> r, mode |-> m] :
        n \in StreamBoardSizes, fs \in SgfShapes, nw \in 1 .. MaxWorkers,
        lim \in limits, r \in ratios, m \in {"train", "val"}}

InitStream ==
    /\ cfg \in Configs(Limits, StreamRatios)
    /\ \E w \in 0 .. (cfg.num_workers - 1) : workers = [i \in {w} |-> InitWorker]
    /\ size = 0
    /\ board = << >>
    /\ calls = 0
    /\ last = NoCall
    /\ replay = NoReplay
    /\ split = NoSplit
    /\ hist = NoHist
    /\ gui = NoGui

InitShard ==
    /\ cfg \in Configs({<< >>}, {[num |-> 1, den |-> 1000]})
    /\ workers = [i \in 0 .. (cfg.num_workers - 1) |-> InitWorker]
    /\ size = 0
    /\ board = << >>
    /\ calls = 0
    /\ last = NoCall
    /\ replay = NoReplay
    /\ split = NoSplit
    /\ hist = NoHist
    /\ gui = NoGui

AtGame(ws) ==
    /\ ws.status = "running"
    /\ ws.file < Len(cfg.files)
    /\ ws.line < cfg.files[ws.file + 1]

CompactIterate(w) ==
    /\ cfg.fmt = "compact"
    /\ AtGame(workers[w])
    /\ \E line \in CompactLines :
          workers' = [workers EXCEPT ![w] = CompactIteration(cfg, w, workers[w], line)]
    /\ UNCHANGED <<size, board, calls, last, replay, cfg, split, hist, gui>>

\* the end of a .data file: the with-block is left, the next path is opened
CompactNextFile(w) ==
    /\ cfg.fmt = "compact"
    /\ workers[w].status = "running"
    /\ workers[w].file < Len(cfg.files)
    /\ workers[w].line = cfg.files[workers[w].file + 1]
    /\ workers' = [workers EXCEPT ![w].file = @ + 1, ![w].line = 0]
    /\ UNCHANGED <<size, board, calls, last, replay, cfg, split, hist, gui>>

\* path.open('r') raises OSError: nothing in __iter__ catches it
CompactOpenFails(w) ==
    /\ cfg.fmt = "compact"
    /\ workers[w].status = "running"
    /\ workers[w].file < Len(cfg.files)
    /\ workers[w].line = 0
    /\ workers' = [workers EXCEPT
          ![w].status = "raised",
          ![w].did = Did("unreadable", "raise", << >>, FALSE, 0)]
    /\ UNCHANGED <<size, board, calls, last, replay, cfg, split, hist, gui>>

SgfIterate(w) ==
    /\ cfg.fmt = "sgf"
    /\ AtGame(workers[w])
    /\ \E file \in SgfFiles(cfg.board_size) :
          workers' = [workers EXCEPT ![w] = SgfIteration(cfg, w, workers[w], file)]
    /\ UNCHANGED <<size, board, calls, last, replay, cfg, split, hist, gui>>

\* the list of data files is exhausted: the generator ends
Exhausted(w) ==
    /\ workers[w].status = "running"
    /\ workers[w].file = Len(cfg.files)
    /\ workers' = [workers EXCEPT ![w].status = "done"]
    /\ UNCHANGED <<size, board, calls, last, replay, cfg, split, hist, gui>>

NextStream ==
    \/ \E w \in DOMAIN workers : CompactIterate(w)
    \/ \E w \in DOMAIN workers : CompactNextFile(w)
    \/ \E w \in DOMAIN workers : CompactOpenFails(w)
    \/ \E w \in DOMAIN workers : SgfIterate(w)
    \/ \E w \in DOMAIN workers : Exhausted(w)

SpecStream == InitStream /\ [][NextStream]_vars

SpecShard == InitShard /\ [][NextStream]_vars

(***************************************************************************)
(* Specification SpecSplit: _selected of either dataset, in both modes, on *)
(* one game index.                                                         *)
(***************************************************************************)
\* val_ratio: -0.1, 0, 0.0005, 0.001, 0.0015, 0.1, 0.999, 1 and 1.5
SplitRatios ==
    {[num |-> -1, den |-> 10], [num |-> 0, den |-> 1], [num |-> 1, den |-> 2000],
     [num |-> 1, den |-> 1000], [num |-> 3, den |-> 2000], [num |-> 1, den |-> 10],
     [num |-> 999, den |-> 1000], [num |-> 1, den |-> 1], [num |-> 3, den |-> 2]}

InitSplit ==
    /\ split \in {[dataset |-> d, ratio |-> r, index |-> i, evaluated |-> FALSE,
                   train |-> FALSE, val |-> FALSE] :
                     d \in {"compact", "sgf"}, r \in SplitRatios,
                     i \in 0 .. MaxGameIndex}
    /\ size = 0
    /\ board = << >>
    /\ calls = 0
    /\ last = NoCall
    /\ replay = NoReplay
    /\ cfg = NoConfig
    /\ workers = NoWorkers
    /\ hist = NoHist
    /\ gui = NoGui

SelectCompact ==
    /\ split.dataset = "compact" /\ ~split.evaluated
    /\ split' = [split EXCEPT
          !.evaluated = TRUE,
          !.train = GoMoveDataset_selected("train", split.ratio, split.index),
          !.val = GoMoveDataset_selected("val", split.ratio, split.index)]
    /\ UNCHANGED <<size, board, calls, last, replay, cfg, workers, hist, gui>>

SelectSgf ==
    /\ split.dataset = "sgf" /\ ~split.evaluated
    /\ split' = [split EXCEPT
          !.evaluated = TRUE,
          !.train = SgfGoMoveDataset_selected("train", split.ratio, split.index),
          !.val = SgfGoMoveDataset_selected("val", split.ratio, split.index)]
    /\ UNCHANGED <<size, board, calls, last, replay, cfg, workers, hist, gui>>

NextSplit == SelectCompact \/ SelectSgf

SpecSplit == InitSplit /\ [][NextSplit]_vars

(***************************************************************************)
(* The vocabulary of the rules, stated without the engine's traversal:     *)
(* a group is a maximal 4-connected set of stones of one colour, a liberty *)
(* an empty cell adjacent to a stone of the group.                         *)
(***************************************************************************)
Abs(i) == IF i < 0 THEN -i ELSE i

Adjacent(p, q) == Abs(p[1] - q[1]) + Abs(p[2] - q[2]) = 1

At(b, p) == b[p[2]][p[1]]

RECURSIVE Grow(_, _, _)
Grow(b, n, S) ==
    LET T == S \cup {q \in Cells(n) :
                 \E s \in S : Adjacent(s, q) /\ At(b, q) = At(b, s)}
    IN IF T = S THEN S ELSE Grow(b, n, T)

GroupOf(b, n, p) == Grow(b, n, {p})

LibertiesOf(b, n, G) ==
    {q \in Cells(n) : At(b, q) = 0 /\ \E s \in G : Adjacent(s, q)}

\* the grid of the last call with the stone placed and nothing removed yet
LastTarget == <<last.x, last.y>>
LastValue == ColorValue(last.color)
LastPlaced == SetCells(last.pre, {LastTarget}, LastValue)

\* the opposing stones adjacent to the target whose group has no liberty
\* once the stone is placed
LastDeadNeighbours ==
    {q \in Cells(size) :
        /\ Adjacent(q, LastTarget)
        /\ At(LastPlaced, q) = -LastValue
        /\ LibertiesOf(LastPlaced, size, GroupOf(LastPlaced, size, q)) = {}}

LastOwnGroupHasNoLiberty ==
    LibertiesOf(LastPlaced, size, GroupOf(LastPlaced, size, LastTarget)) = {}

LastOnEmpty == last.op = "play_move" /\ At(last.pre, LastTarget) = 0

(***************************************************************************)
(* Claims about play_move, checked under Spec.                             *)
(***************************************************************************)
NoDuplicates(s) == \A i, j \in DOMAIN s : s[i] = s[j] => i = j

\* C1: a play_move on an empty cell that captures nothing and leaves the placed
\* stone's own group without a liberty fails with the suicide error, and the
\* grid after the call equals the grid before it cell for cell.
C1_SuicideLeavesBoardUnchanged ==
    (LastOnEmpty /\ LastDeadNeighbours = {} /\ LastOwnGroupHasNoLiberty)
        => (last.result = "suicide" /\ board = last.pre)

\* a suicide has been attempted on a 3x3 board between two opposing stones
C1_Witness ==
    /\ LastOnEmpty /\ LastDeadNeighbours = {} /\ LastOwnGroupHasNoLiberty
    /\ last.result = "suicide"
    /\ size = 3
    /\ Cardinality({q \in Cells(size) :
            Adjacent(q, LastTarget) /\ At(board, q) = -LastValue}) = 2

\* C2: captures are resolved before the suicide check: a play_move whose placed
\* stone's group has no liberty while opposing stones are on the board, but
\* which leaves an adjacent opposing group without a liberty, succeeds, and
\* every stone of every such group is removed.
C2_CaptureBeforeSuicide ==
    (LastOnEmpty /\ LastOwnGroupHasNoLiberty /\ LastDeadNeighbours # {})
        => /\ last.result = "ok"
           /\ At(board, LastTarget) = LastValue
           /\ \A q \in LastDeadNeighbours :
                 \A s \in GroupOf(LastPlaced, size, q) : At(board, s) = 0

C2_Witness ==
    /\ LastOnEmpty /\ LastOwnGroupHasNoLiberty /\ LastDeadNeighbours # {}
    /\ last.result = "ok"
    /\ \E q \in LastDeadNeighbours :
          Cardinality(GroupOf(LastPlaced, size, q)) >= 2

\* C3: a play_move on a cell that is not empty fails with the occupied-point
\* error and the grid after the call equals the grid before it.
C3_OccupiedLeavesBoardUnchanged ==
    (last.op = "play_move" /\ At(last.pre, LastTarget) # 0)
        => (last.result = "occupied" /\ board = last.pre)

\* the occupying stone is of the other colour than the mover
C3_Witness ==
    /\ last.op = "play_move"
    /\ At(last.pre, LastTarget) = -LastValue
    /\ last.result = "occupied"

\* the cells that held an opposing stone before the last call and are empty now
LastRemoved ==
    {q \in Cells(size) : At(last.pre, q) = -LastValue /\ At(board, q) = 0}

\* C4: on success the returned collection holds exactly the cells that held an
\* opposing stone before the call and are empty after it, each exactly once.
C4_CapturedExactlyOnce ==
    (last.op = "play_move" /\ last.result = "ok")
        => (Range(last.captured) = LastRemoved /\ NoDuplicates(last.captured))

(***************************************************************************)
(* Claims about the replay loops, checked under SpecReplay.                *)
(***************************************************************************)
\* C5: a replay stopped by an illegal move at 0-based position k among the
\* game's well-formed placements has produced exactly k samples: none for the
\* illegal move itself.  (While the status is "illegal" the illegal move is the
\* last placement counted, so k = placements - 1.)
C5_NoSampleForIllegalMove ==
    replay.status = "illegal" => replay.samples = replay.placements - 1

(***************************************************************************)
(* Claims about the pipelines, checked under SpecStream, SpecSplit and     *)
(* SpecShard.                                                              *)
(***************************************************************************)
\* the line contents whose container is not a JSON array of move entries
UndecodableKinds == {"notjson", "number", "object"}

\* C6: in the compact-format pipeline a game whose container fails to decode
\* yields no sample and no error reaches the consumer: the worker goes on with
\* the next line.
C6_UndecodableGameIsSkipped ==
    \A w \in DOMAIN workers :
        (cfg.fmt = "compact" /\ workers[w].did.kind \in UndecodableKinds)
            => (workers[w].status = "running" /\ workers[w].did.labels = << >>)

\* floor(val_ratio * 1000) for val_ratio = num/den
Threshold(ratio) == (ratio.num * 1000) \div ratio.den

\* C7: with T = floor(val_ratio * 1000), mode 'val' selects game i iff
\* val_ratio > 0 and (i mod 1000) < T, and mode 'train' selects i iff mode
\* 'val' does not, in both datasets.
C7_SplitRule ==
    split.evaluated
        => /\ split.val = (split.ratio.num > 0
                           /\ (split.index % 1000) < Threshold(split.ratio))
           /\ split.train = ~split.val

\* val_ratio = 0.1 has put a game with index above 1000 into the val split
C7_Witness ==
    /\ split.evaluated
    /\ split.ratio = [num |-> 1, den |-> 10]
    /\ split.index > 1000
    /\ split.val /\ ~split.train

\* the games of the source: <<file, line>> for the compact format, <<file, 0>>
\* for SGF
AllGames ==
    UNION {{<<f - 1, l>> : l \in 0 .. (cfg.files[f] - 1)} : f \in 1 .. Len(cfg.files)}

AllDone == \A w \in DOMAIN workers : workers[w].status = "done"

\* C8: without limit_games the workers' game sets are pairwise disjoint, and
\* once every worker has iterated the whole source every game is in the set
\* of exactly one worker.
C8_ShardsPartitionGames ==
    /\ \A v, w \in DOMAIN workers :
          v # w => workers[v].owned \cap workers[w].owned = {}
    /\ AllDone =>
          /\ \A g \in AllGames :
                Cardinality({w \in DOMAIN workers : g \in workers[w].owned}) = 1
          /\ \A w \in DOMAIN workers : workers[w].owned \subseteq AllGames

\* two workers have iterated two .data files of two lines each
C8_Witness ==
    /\ AllDone
    /\ cfg.fmt = "compact"
    /\ cfg.num_workers = 2
    /\ cfg.files = <<2, 2>>
    /\ \A w \in DOMAIN workers : Cardinality(workers[w].owned) = 2

\* C9: with limit_games = L a worker scans at most L games of the stream,
\* games of other workers and of the other split included.
C9_ScanBoundedByLimit ==
    \A w \in DOMAIN workers :
        cfg.limit # << >> => workers[w].scanned <= cfg.limit[1]

\* C10: in both pipelines games_seen grows by exactly one for each game that
\* passes the limit check, whatever becomes of the game, so that with
\* limit_games = L a worker never starts more than L games.
C10_LimitCountsGamesSeen ==
    \A w \in DOMAIN workers :
        /\ workers[w].did.passed_limit => workers[w].did.seen_delta = 1
        /\ cfg.limit # << >> => workers[w].started <= cfg.limit[1]

(***************************************************************************)
(* Claims about sequences of play_move calls, checked under Spec.          *)
(***************************************************************************)
\* the number of occupied cells
Stones(b, n) == Cardinality({q \in Cells(n) : At(b, q) # 0})

\* C17: from an empty board, as long as no play_move has captured a stone the
\* number of occupied cells equals the number of successful play_move calls;
\* failed calls in between do not change the count.
C17_StonesEqualSuccessfulCalls ==
    hist.captures = 0 => Stones(board, size) = hist.succeeded

\* three stones are on the board after four calls, one of which failed
C17_Witness ==
    /\ hist.captures = 0
    /\ hist.succeeded = 3
    /\ calls = 4
    /\ last.result = "ok"
    /\ Stones(board, size) = 3

(***************************************************************************)
(* Further claims about the pipelines, checked under SpecStream.           *)
(***************************************************************************)
RECURSIVE SumOf(_)
SumOf(s) == IF s = << >> THEN 0 ELSE Head(s) + SumOf(Tail(s))

\* the position of the line a worker is at in the concatenation of the files
StreamPosition(files, ws) == SumOf(SubSeq(files, 1, ws.file)) + ws.line

\* C11: in the compact-format pipeline the game index used for the shard and
\* the split test is the line's position in the concatenation of the files:
\* it keeps increasing across file boundaries.
C11_IndexRunsAcrossFiles ==
    \A w \in DOMAIN workers :
        (cfg.fmt = "compact" /\ AtGame(workers[w]))
            => CompactGameIndex(workers[w]) = StreamPosition(cfg.files, workers[w])

\* C16: a failure to open or read a source file ends the stream with an
\* error, in both pipelines; the file is never skipped silently.
C16_OpenFailureIsSurfaced ==
    \A w \in DOMAIN workers :
        workers[w].did.kind = "unreadable" => workers[w].status = "raised"

(***************************************************************************)
(* Further claims about the replay loops, checked under SpecReplay and     *)
(* SpecGame.                                                               *)
(***************************************************************************)
\* a compact-format entry that is not an object with exactly one key, whose
\* value is not a 2-element list, or whose coordinate is outside [1, n]
MalformedOrOutOfRange(n, e) ==
    \/ ~e.isdict \/ e.nkeys # 1
    \/ ~e.islist \/ e.ncoords # 2
    \/ e.x < 1 \/ e.x > n \/ e.y < 1 \/ e.y > n

ReplayGoesOn == replay.status \in {"running", "finished"}

\* C12: in the compact-format replay a malformed or out-of-range entry yields
\* no sample, leaves the board unchanged and does not stop the replay; every
\* other entry the loop reaches yields its sample, also after skipped ones.
C12_BadEntryIsSkipped ==
    (replay.fmt = "compact" /\ replay.pos > 0)
        => IF MalformedOrOutOfRange(replay.size, replay.entry)
           THEN /\ replay.out = << >>
                /\ replay.board = replay.pre
                /\ ReplayGoesOn
           ELSE Len(replay.out) = 1

\* a placement has yielded its sample after two skipped entries
C12_Witness ==
    /\ replay.fmt = "compact"
    /\ replay.pos = 4
    /\ replay.placements = 2
    /\ replay.samples = 2
    /\ ~MalformedOrOutOfRange(replay.size, replay.entry)
    /\ Len(replay.out) = 1
    /\ replay.board # replay.pre

\* C13: in the SGF pipeline a pass node (a colour with a None position) yields
\* no sample, leaves the board unchanged, and the replay continues with the
\* following node.
C13_PassIsSkipped ==
    (replay.fmt = "sgf" /\ replay.pos > 0
        /\ replay.entry.color # "none" /\ ~replay.entry.haspos)
        => /\ replay.out = << >>
           /\ replay.board = replay.pre
           /\ ReplayGoesOn

\* the grid after the given placements, each accepted, from an empty board
RECURSIVE Rebuild(_, _)
Rebuild(n, ms) ==
    IF ms = << >> THEN EmptyBoard(n)
    ELSE PlayMove(Rebuild(n, SubSeq(ms, 1, Len(ms) - 1)), n,
                  ms[Len(ms)].color, ms[Len(ms)].x, ms[Len(ms)].y).board

StonePlanes(features) == << features[1], features[2] >>

\* C14: the samples of a game come in move order, and the stone planes of the
\* sample of the i-th placement show the board made of the placements before
\* it, all of which were accepted, without the stone being labelled.
C14_SampleShowsBoardBeforeMove ==
    /\ Len(replay.kept) <= Len(replay.tried)
    /\ \A i \in 1 .. Len(replay.kept) :
          /\ replay.kept[i].action
                = replay.tried[i].y * replay.size + replay.tried[i].x
          /\ StonePlanes(replay.kept[i].features)
                = StonePlanes(MakeFeatures(
                      Rebuild(replay.size, SubSeq(replay.tried, 1, i - 1)),
                      replay.size, replay.tried[i].color))

\* the number of cells a plane marks
Marked(plane, n) == Cardinality({q \in Cells(n) : plane[q[2]][q[1]] = 1})

\* the fourth sample of a game shows a board from which a stone was captured
C14_Witness ==
    /\ replay.keep
    /\ replay.fmt = "compact"
    /\ Len(replay.kept) = 4
    /\ Marked(replay.kept[4].features[1], replay.size) = 0
    /\ Marked(replay.kept[4].features[2], replay.size) = 2

\* the cell an action label decodes to: column = label mod n, row = label div n
LabelCell(a, n) == << a % n, a \div n >>

\* C15: every label is in [0, size*size) and is (y-1)*size + (x-1) for a
\* compact-format move [x, y], y*size + x for an SGF move; an accepted move
\* puts its stone on the cell the label decodes to; the game B[4,4] on a 9x9
\* board yields exactly one sample, labelled 30.
C15_LabelIsRowMajorIndex ==
    /\ (replay.pos > 0 /\ replay.out # << >>)
          => /\ replay.out[1].action \in 0 .. (replay.size * replay.size - 1)
             /\ replay.out[1].action =
                    IF replay.fmt = "compact"
                    THEN (replay.entry.y - 1) * replay.size + (replay.entry.x - 1)
                    ELSE replay.entry.y * replay.size + replay.entry.x
             /\ replay.status # "illegal"
                   => /\ At(replay.pre, LabelCell(replay.out[1].action, replay.size)) = 0
                      /\ At(replay.board, LabelCell(replay.out[1].action, replay.size)) # 0
    /\ (replay.size = 9 /\ replay.fmt = "compact" /\ replay.pos = 1
           /\ replay.entry = CompactMove("B", 4, 4))
          => (replay.samples = 1 /\ Labels(replay.out) = << 30 >>)

\* the one-move game B[4,4] has been replayed on a 9x9 board
C15_Witness ==
    /\ replay.size = 9 /\ replay.fmt = "compact"
    /\ replay.pos = 1 /\ replay.status = "finished"
    /\ replay.entry = CompactMove("B", 4, 4)
    /\ replay.samples = 1
    /\ Labels(replay.out) = << 30 >>

(***************************************************************************)
(* Claims about the constructor, the setup operations and make_features,   *)
(* checked under SpecSetup.                                                *)
(***************************************************************************)
\* C18: make_features leaves the board as it is; plane 2 is 1.0 in every cell
\* when to_play is Black and 0.0 in every cell when it is White; plane 0 is
\* 1.0 exactly on the black stones and plane 1 exactly on the white stones.
C18_FeaturePlanes ==
    last.op = "make_features"
        => /\ board = last.pre
           /\ \A q \in Cells(size) :
                 /\ At(last.features[3], q) = (IF last.to_play = "B" THEN 1 ELSE 0)
                 /\ At(last.features[1], q) = (IF At(board, q) = 1 THEN 1 ELSE 0)
                 /\ At(last.features[2], q) = (IF At(board, q) = -1 THEN 1 ELSE 0)

\* the planes have been made for White on a board that holds both colours
C18_Witness ==
    /\ last.op = "make_features"
    /\ last.to_play = "W"
    /\ size = 2
    /\ \E p, q \in Cells(size) : At(board, p) = 1 /\ At(board, q) = -1

\* C19: after any sequence of apply_setup and apply_empty calls on an empty
\* board, plane 0 and plane 1 of make_features mark exactly the cells
\* (y-1, x-1) of the coordinates (x, y) last set to Black respectively White.
C19_SetupRoundTrip ==
    last.op = "make_features"
        => \A c \in DOMAIN hist.setting :
              /\ (last.features[1][c[2] - 1][c[1] - 1] = 1) = (hist.setting[c] = "B")
              /\ (last.features[2][c[2] - 1][c[1] - 1] = 1) = (hist.setting[c] = "W")

\* on a 2x2 board (2, 1) was last set to Black, (1, 2) to White, and (1, 1)
\* holds no stone
C19_Witness ==
    /\ last.op = "make_features"
    /\ size = 2
    /\ hist.setting[<<2, 1>>] = "B"
    /\ hist.setting[<<1, 2>>] = "W"
    /\ hist.setting[<<1, 1>>] = "E"
    /\ last.features[1][0][1] = 1
    /\ last.features[2][1][0] = 1

\* C20: constructing a board fails with the invalid-size error for every size
\* outside [1, 25] and gives a size x size grid of empty cells for every size
\* inside.
C20_ConstructorChecksSize ==
    last.op = "__init__"
        => IF size \in 1 .. 25
           THEN /\ last.result = "ok"
                /\ DOMAIN board = Idx(size)
                /\ \A y \in Idx(size) :
                      DOMAIN board[y] = Idx(size) /\ \A x \in Idx(size) : board[y][x] = 0
           ELSE /\ last.result = "invalid_size"
                /\ board = << >>

\* a 25x25 board has been constructed
C20_Witness ==
    /\ last.op = "__init__"
    /\ size = 25
    /\ last.result = "ok"
    /\ Cardinality(DOMAIN board) = 25


(***************************************************************************)
(* Claims about one play_move or one _collect_group on any position,       *)
(* checked under SpecPosition (C23, C24, C27), and about the positions     *)
(* play_move reaches from an empty board, checked under Spec (C28).        *)
(***************************************************************************)
\* the stones of the opposing groups the last call leaves without a liberty
LastDeadStones ==
    UNION {GroupOf(LastPlaced, size, q) : q \in LastDeadNeighbours}

\* C23: a successful play_move changes exactly these cells: the target takes
\* the mover's colour and every stone of every opposing group adjacent to the
\* target and without a liberty after the placement becomes empty; every
\* other cell keeps its value, also when several groups are captured at once.
C23_SuccessChangesExactlyTheseCells ==
    (last.op = "play_move" /\ last.result = "ok")
        => board = SetCells(LastPlaced, LastDeadStones, 0)

\* one move has captured two distinct opposing groups
C23_Witness ==
    /\ last.op = "play_move"
    /\ last.result = "ok"
    /\ Cardinality({GroupOf(LastPlaced, size, q) : q \in LastDeadNeighbours}) >= 2
    /\ \A s \in LastDeadStones : At(board, s) = 0

\* C27: on a board of size 2 or more a play_move that leaves an adjacent
\* opposing group without a liberty succeeds; the suicide error is raised only
\* by calls whose capture list is empty, so the suicide branch never puts a
\* captured stone back.
C27_CaptureImpliesSuccess ==
    (LastOnEmpty /\ size >= 2)
        => /\ LastDeadNeighbours # {} => last.result = "ok"
           /\ last.result = "suicide"
                 => /\ LastDeadNeighbours = {}
                    /\ CapturedGroups(LastPlaced, size, LastValue,
                                      last.x, last.y) = << >>

\* a capture by a stone whose group keeps liberties of its own before the
\* captured stones are taken off
C27_Witness ==
    /\ LastOnEmpty
    /\ size = 3
    /\ LastDeadNeighbours # {}
    /\ ~LastOwnGroupHasNoLiberty
    /\ last.result = "ok"
    /\ CapturedGroups(LastPlaced, size, LastValue, last.x, last.y) # << >>

\* C28: from an empty board and through play_move calls only, every group on
\* the board has at least one liberty in every reachable state; on a 1x1
\* board every play_move fails as suicide and the board stays empty.
C28_EveryGroupHasALiberty ==
    /\ \A q \in Cells(size) :
          At(board, q) # 0
              => LibertiesOf(board, size, GroupOf(board, size, q)) # {}
    /\ size = 1 => /\ board = EmptyBoard(1)
                   /\ last.op = "play_move" => last.result = "suicide"

\* a suicide has just been refused between opposing stones that keep
\* liberties of their own, and the refused stone is not on the board
C28_Witness ==
    /\ last.op = "play_move"
    /\ last.result = "suicide"
    /\ size >= 2
    /\ At(board, LastTarget) = 0
    /\ Cardinality({q \in Cells(size) :
            Adjacent(q, LastTarget) /\ At(board, q) = -LastValue}) >= 2

\* C24: on every board and every occupied cell (x, y), _collect_group returns
\* exactly the maximal 4-connected set of cells of the colour of (x, y) that
\* contains it, each member once, with the number of distinct empty cells
\* adjacent to a member, and leaves the board as it was.
C24_CollectGroupIsTheGroup ==
    last.op = "_collect_group"
        => /\ Range(last.group) = GroupOf(last.pre, size, LastTarget)
           /\ NoDuplicates(last.group)
           /\ last.liberties =
                 Cardinality(LibertiesOf(last.pre, size,
                                         GroupOf(last.pre, size, LastTarget)))
           /\ board = last.pre

\* a group of three stones on a 3x3 board with an empty cell adjacent to two
\* of them, beside a stone of the same colour that is not connected to it
C24_Witness ==
    /\ last.op = "_collect_group"
    /\ size = 3
    /\ Len(last.group) = 3
    /\ \E e \in LibertiesOf(last.pre, size, Range(last.group)) :
          Cardinality({s \in Range(last.group) : Adjacent(s, e)}) = 2
    /\ \E q \in Cells(size) :
          At(board, q) = At(board, LastTarget) /\ q \notin Range(last.group)
    /\ last.liberties < 2 * Len(last.group)

(***************************************************************************)
(* The claim about the absence of history, checked under SpecKo.           *)
(***************************************************************************)
\* what the rules give for the last call from the grid before it, the colour
\* and the point alone
RuleOutcome ==
    IF At(last.pre, LastTarget) # 0 THEN "occupied"
    ELSE IF LastDeadNeighbours = {} /\ LastOwnGroupHasNoLiberty THEN "suicide"
    ELSE "ok"

RuleGrid ==
    IF RuleOutcome = "ok" THEN SetCells(LastPlaced, LastDeadStones, 0)
    ELSE last.pre

\* C29: the outcome of play_move and the resulting grid are a function of the
\* grid before the call, the colour and the coordinate only: whatever was
\* played before, the call ends as the rules give for that grid, so a colour
\* may play twice in a row and the point of a stone just captured may be
\* retaken at once (no ko rule).
C29_OutcomeDependsOnGridOnly ==
    last.op = "play_move"
        => /\ last.result = RuleOutcome
           /\ board = RuleGrid
           /\ Range(last.captured) =
                 (IF RuleOutcome = "ok" THEN LastDeadStones ELSE {})

\* six successful calls, one colour twice in a row among them; the fifth
\* captured a single stone and the sixth retook its point at once, capturing
\* the capturing stone and bringing back the position of two calls before
C29_Witness ==
    /\ calls = 6
    /\ ~hist.failed
    /\ hist.twice
    /\ hist.prev.result = "ok"
    /\ Len(hist.prev.captured) = 1
    /\ hist.prev.captured = << LastTarget >>
    /\ last.color # hist.prev.color
    /\ last.result = "ok"
    /\ last.captured = << <<hist.prev.x, hist.prev.y>> >>
    /\ board = hist.prev.pre
    /\ board # last.pre

(***************************************************************************)
(* Claims about the SGF pipeline, checked under SpecStream.                *)
(***************************************************************************)
\* C21: in the SGF pipeline a file whose declared board size differs from the
\* requested one yields no sample and does not stop the stream: the worker
\* is one file further and runs on until its list is exhausted; a file of the
\* requested size yields the samples of its moves whatever was read before.
C21_WrongSizeFileIsSkipped ==
    \A w \in DOMAIN workers :
        cfg.fmt = "sgf"
            => /\ workers[w].did.kind = "wrongsize"
                     => /\ workers[w].did.labels = << >>
                        /\ workers[w].status \in {"running", "done"}
                        /\ workers[w].file >= 1
               /\ workers[w].did.kind = "legal"
                     => workers[w].did.labels = << 0, 1 >>

\* a worker has skipped a file of another size as the second file it started
\* and has a further file of its list before it
C21_Witness ==
    \E w \in DOMAIN workers :
        /\ cfg.fmt = "sgf"
        /\ workers[w].did.kind = "wrongsize"
        /\ workers[w].did.labels = << >>
        /\ workers[w].started = 2
        /\ AtGame(workers[w])

(***************************************************************************)
(* The claim about the colours of the SGF pipeline, checked under          *)
(* SpecReplay.                                                             *)
(***************************************************************************)
\* C26: in the SGF pipeline, where get_move() gives the colour as 'b' or 'w',
\* the sample of a move by Black has plane 2 equal to 1 everywhere and the
\* accepted move puts a stone of value 1 on the grid; the sample of a move by
\* White has plane 2 equal to 0 everywhere and the stone has value -1.
C26_SgfColourIsHonoured ==
    (replay.fmt = "sgf" /\ replay.pos > 0 /\ replay.out # << >>)
        => /\ \A q \in Cells(replay.size) :
                 replay.out[1].features[3][q[2]][q[1]]
                     = (IF replay.entry.color = "b" THEN 1 ELSE 0)
           /\ replay.status = "running"
                 => replay.board[replay.entry.y][replay.entry.x]
                        = (IF replay.entry.color = "b" THEN 1 ELSE -1)

(***************************************************************************)
(* The claim about the board of each game, checked under SpecGames.        *)
(***************************************************************************)
\* the samples of the last game when it is replayed alone on an empty board
AloneSamples ==
    IF last.fmt = "compact" THEN CompactReplay(size, last.moves).samples
    ELSE SgfReplay(size, last.moves).samples

\* C25: every game is replayed on its own board that starts empty: its
\* samples are those of its moves replayed alone on an empty board of the
\* requested size, whatever the same worker processed before, also after a
\* game abandoned on an illegal move or an item skipped as corrupt; the first
\* sample of a game shows no stone.
C25_GameStartsOnEmptyBoard ==
    (last.op = "game" /\ last.flow # "skip")
        => /\ last.samples = AloneSamples
           /\ last.samples # << >>
                 => /\ Marked(last.samples[1].features[1], size) = 0
                    /\ Marked(last.samples[1].features[2], size) = 0

\* a game yields its two samples after the worker has abandoned a game with
\* stones on its board and has skipped an item
C25_Witness ==
    /\ last.op = "game"
    /\ Len(last.samples) = 2
    /\ last.flow = "next"
    /\ hist.abandoned
    /\ hist.skipped
    /\ board # EmptyBoard(size)
    /\ last.samples = AloneSamples

(***************************************************************************)
(* The claim about the choice of the AI move, checked under SpecAi.        *)
(***************************************************************************)
\* the i-th candidate of the last AI turn, and whether the search must pass
\* over it: it is occupied, or play_move fails on it
Candidate(i) == ToXY(last.order[i], size)

PassedOver(i) ==
    \/ At(last.pre, Candidate(i)) # 0
    \/ PlayMove(last.pre, size, last.color,
                Candidate(i)[1], Candidate(i)[2]).result # "ok"

\* C22: a play_move failure on a candidate is never fatal: the candidates
\* are tried in descending probability order on a copy of the board, occupied
\* and illegal ones are passed over, the result is the first point of the
\* order that is empty and on which play_move succeeds, or None when there
\* is none; the search leaves the live board as it was and the play_move of
\* the returned point on the live board succeeds.
C22_AiMoveIsFirstLegalCandidate ==
    last.op = "ai_move"
        => /\ last.searched = last.pre
           /\ IF last.coord = << >>
              THEN /\ \A i \in DOMAIN last.order : PassedOver(i)
                   /\ last.result = "pass"
                   /\ board = last.pre
              ELSE /\ \E i \in DOMAIN last.order :
                         /\ Candidate(i) = last.coord
                         /\ ~PassedOver(i)
                         /\ \A j \in 1 .. (i - 1) : PassedOver(j)
                   /\ last.result = "ok"
                   /\ At(board, last.coord) = ColorValue(last.color)

\* on the 3x3 board the search passed over an occupied point and an empty
\* point on which the move is a suicide before it found its point
C22_Witness ==
    /\ last.op = "ai_move"
    /\ size = 3
    /\ last.coord # << >>
    /\ last.result = "ok"
    /\ \E i, j, k \in DOMAIN last.order :
          /\ i < k /\ j < k
          /\ Candidate(k) = last.coord
          /\ At(last.pre, Candidate(i)) # 0
          /\ At(last.pre, Candidate(j)) = 0
          /\ PlayMove(last.pre, size, last.color,
                      Candidate(j)[1], Candidate(j)[2]).result = "suicide"

(***************************************************************************)
(* The claim about the GUI, checked under SpecGui.                         *)
(***************************************************************************)
\* the canvas stone map and the engine's grid show the same stones
Mirror ==
    /\ \A p \in Cells(size), c \in {1, -1} :
          (<<p, c>> \in gui.stones) <=> (At(board, p) = c)
    /\ \A e \in gui.stones : e[1] \in Cells(size) /\ e[2] \in {1, -1}

\* C30: after any sequence of board clicks, human passes, AI move callbacks
\* and restarts, a coordinate is a key of the canvas stone map with colour c
\* iff the engine's grid holds a stone of colour c there; a click rejected
\* as occupied or as suicide changes neither of them, nor the current player
\* or the move count.
C30_CanvasMirrorsEngine ==
    /\ Mirror
    /\ (last.op = "click" /\ last.result \in {"occupied", "suicide"})
          => ~last.changed

\* a click has just been rejected as suicide in a game in which a stone has
\* been captured: more moves were made than stones are on the board
C30_Witness ==
    /\ last.op = "click"
    /\ last.result = "suicide"
    /\ ~last.changed
    /\ Cardinality(gui.stones) >= 2
    /\ gui.move_count > Cardinality(gui.stones)
    /\ gui.game_active
    /\ Mirror
====
